---- MODULE Spec2Model ----
(***************************************************************************)
(* A model of the urbs reporting and scenario layer:                       *)
(*   - dataset.py   Scenario (data-update list, constraint injectors,      *)
(*                  keyword arguments) and DataSet (read_data, to_parquet) *)
(*   - CustomCon.py add_custom_constraints                                 *)
(*   - report.py    report_all and input_data_report                       *)
(*   - query/execute.py export_results                                     *)
(*   - util.py      delete_folder                                          *)
(* Every method is one action; the loops of the methods are folds over the *)
(* sequences they iterate.  The four parts have their own specification,   *)
(* each holding the variables of the other parts at their idle values.     *)
(***************************************************************************)
EXTENDS Integers, Sequences, FiniteSets, TLC

VARIABLES
    \* ---- Scenario (dataset.py:103-134)
    data_updates,   \* self.data_updates: tuple of update functions
    constraints,    \* self.constraints: tuple of constraint injectors
    kwargs,         \* self.kwargs: dict of keyword arguments
    ctorUpdates,    \* history: the constructor's data_updates argument
    ctorArgs,       \* history: the constructor's extra positional arguments
    added,          \* history: functions added by update_scenario_data, in call order
    data,           \* the dataset object handed to construct
    dataAtCall,     \* history: the dataset's contents when construct was entered
    calls,          \* history: the calls f(data, **kwargs) made by the last construct
    \* ---- add_custom_constraints (CustomCon.py:4-25)
    model,          \* the model: the constraints attached to it, in order
    modelAtCall,    \* history: the model when add_custom_constraints was entered
    applied,        \* history: the injectors called by the last add_custom_constraints
    \* ---- DataSet (dataset.py:10-98) and the file system
    fs,             \* the file system: what each path holds
    ds,             \* self: the DataSet's mapping from table name to table
    lastPath,       \* history: the path argument of the last call
    \* ---- report_all (report.py:212-452)
    instance,       \* the solved model instance, its input tables included
    files,          \* the files written below resultdir
    db,             \* data.db: the scenarios appended to each table
    \* ---- report (report.py:44-209)
    report_tuples,  \* the caller's list of (stf, sit, com) tuples
    report_sites_name, \* the dict of sheet names handed to report
    writer,         \* the spreadsheet: the sheets written by the last report
    \* ---- export_results (query/execute.py:6-41)
    queries,        \* the query directory: what executing each file does
    executed,       \* history: the query files executed, in order
    csvs,           \* the CSV files written
    trans,          \* the Trans table of the last report_all
    \* ---- every part
    lastArgs,       \* history: the arguments of the last call
    raised,         \* the exception leaving the last call, or NoExc
    lastOp          \* the operation that ran last

scenarioVars == <<data_updates, constraints, kwargs, ctorUpdates, ctorArgs, added,
                  data, dataAtCall, calls, model, modelAtCall, applied>>
datasetVars == <<fs, ds, lastPath>>
reportVars == <<instance, files, db, trans, report_tuples, report_sites_name, writer>>
queryVars == <<queries, executed, csvs>>

vars == <<scenarioVars, datasetVars, reportVars, queryVars, lastArgs, raised, lastOp>>

\* ------------------------------------------------------------------ bounds
MaxUpdates == 4     \* longest data-update list
MaxRules == 3       \* longest constraint-injector list
DataMod == 3        \* table cells hold values 0 .. DataMod-1

\* ------------------------------------------------------------------ helpers
\* All sequences over S of length at most n.
SeqUpTo(S, n) == UNION {[1..k -> S] : k \in 0..n}

\* An update in which the entries already present win.
DictUpdateKeepOld(old, new) ==
    [k \in DOMAIN old \cup DOMAIN new |-> IF k \in DOMAIN old THEN old[k] ELSE new[k]]

\* dict.update: the entries of new override those of old.
DictUpdate(old, new) ==
    [k \in DOMAIN old \cup DOMAIN new |-> IF k \in DOMAIN new THEN new[k] ELSE old[k]]

\* All dicts with keys among K and values in V.
Dicts(K, V) == UNION {[S -> V] : S \in SUBSET K}

NoExc == [type |-> "none", by |-> "none", name |-> "none"]

\* ------------------------------------------------------------------ Scenario
\* The update functions a scenario is composed from.  data_update is the one the
\* repository ships (it returns the dataset untouched); the others stand for
\* user-written functions, which change the tables of the dataset they receive.
Funcs == {"data_update", "inc_demand", "double_demand"}

Keys == {"k1", "k2"}
Vals == {1, 2}
Kwargs == Dicts(Keys, Vals)

Tables == {"demand"}
Datasets == [Tables -> 0..(DataMod - 1)]

\* f(data, **kw): the dataset after the call (the functions work in place).
ApplyUpdate(f, d, kw) ==
    CASE f = "data_update" -> d
      [] f = "inc_demand" ->
            [d EXCEPT !["demand"] = (@ + (IF "k1" \in DOMAIN kw THEN kw["k1"] ELSE 1)) % DataMod]
      [] f = "double_demand" -> [d EXCEPT !["demand"] = (2 * @) % DataMod]

\* The dataset object the update functions of construct are called on.
ConstructTarget(d) == d

\* for f in self.data_updates: f(data, **self.kwargs)
\* The fold returns the dataset and the log of calls after the functions us[i..].
RECURSIVE RunUpdates(_, _, _, _, _)
RunUpdates(us, i, d, kw, log) ==
    IF i > Len(us) THEN [data |-> d, calls |-> log]
    ELSE RunUpdates(us, i + 1, ApplyUpdate(us[i], d, kw), kw,
                    Append(log, [f |-> us[i], kw |-> kw]))

\* A list extended at the wrong end.
ExtendFront(old, args) == args \o old

\* tuple([*data_updates, *args])
Extend(old, args) == old \o args

\* ------------------------------------------------------------------ CustomCon
\* Constraint injectors: c1 and c2 attach a constraint to the model, cType raises
\* TypeError, cOther raises an exception of another type.
Injs == {"c1", "c2", "cType", "cOther"}

InjRaises(i) ==
    CASE i = "cType" -> "TypeError"
      [] i = "cOther" -> "ValueError"
      [] OTHER -> "none"

\* An injector that puts its constraint before the model's earlier ones.
InjectFront(i, m) == <<i>> \o m

\* i(self) for an injector that returns.
Inject(i, m) == Append(m, i)

\* A handler that catches every exception.
CaughtAny(type) == TRUE

\* except TypeError: raise TypeError(f"Custom constraint {i} undefined")
Caught(type) == type = "TypeError"

\* for i in args: try: i(self) except TypeError: raise TypeError(...)
RECURSIVE RunInjectors(_, _, _, _)
RunInjectors(args, k, m, log) ==
    IF k > Len(args) THEN [model |-> m, applied |-> log, raised |-> NoExc]
    ELSE LET i == args[k]
             t == InjRaises(i)
         IN IF t = "none"
            THEN RunInjectors(args, k + 1, Inject(i, m), Append(log, i))
            ELSE [model |-> m, applied |-> Append(log, i),
                  raised |-> IF Caught(t)
                             THEN [type |-> "TypeError", by |-> "add_custom_constraints",
                                   name |-> i]
                             ELSE [type |-> t, by |-> i, name |-> i]]

\* ------------------------------------------------------------------ actions
\* Keyword arguments given to a call.
KwInputs == {<<>>, [k \in {"k1"} |-> 1], [k \in {"k1"} |-> 2], [k \in {"k2"} |-> 1]}

\* Scenario.__init__(name, data_updates, constraints, doc, *args, **kwargs)
Scenario(du, cons, args, kw) ==
    /\ kwargs = kw
    /\ data_updates = Extend(du, args)
    /\ constraints = cons
    /\ ctorUpdates = du
    /\ ctorArgs = args
    /\ added = <<>>

\* No call has been made yet.
NoCallYet ==
    /\ dataAtCall = data
    /\ calls = <<>>
    /\ model = <<>>
    /\ modelAtCall = <<>>
    /\ applied = <<>>
    /\ lastArgs = <<>>
    /\ raised = NoExc
    /\ lastOp = "init"

\* Scenario.construct(data, **kw)
construct(kw) ==
    LET kws == DictUpdate(kwargs, kw)
        r == RunUpdates(data_updates, 1, ConstructTarget(data), kws, <<>>)
    IN /\ kwargs' = kws
       /\ dataAtCall' = data
       /\ data' = r.data
       /\ calls' = r.calls
       /\ lastOp' = "construct"
       /\ lastArgs' = <<kw>>
       /\ model' = <<>> /\ modelAtCall' = <<>> /\ applied' = <<>> /\ raised' = NoExc
       /\ UNCHANGED <<data_updates, constraints, ctorUpdates, ctorArgs, added>>
       /\ UNCHANGED <<datasetVars, reportVars, queryVars>>

\* Scenario.update_scenario_data(*args, **kw)
update_scenario_data(args, kw) ==
    /\ Len(data_updates) + Len(args) <= MaxUpdates
    /\ data_updates' = IF args # <<>> THEN Extend(data_updates, args) ELSE data_updates
    /\ kwargs' = IF DOMAIN kw # {} THEN DictUpdate(kwargs, kw) ELSE kwargs
    /\ added' = added \o args
    /\ lastOp' = "update_scenario_data"
    /\ lastArgs' = <<kw>>
    /\ calls' = <<>> /\ dataAtCall' = data
    /\ model' = <<>> /\ modelAtCall' = <<>> /\ applied' = <<>> /\ raised' = NoExc
    /\ UNCHANGED <<constraints, ctorUpdates, ctorArgs, data>>
    /\ UNCHANGED <<datasetVars, reportVars, queryVars>>

\* Scenario.update_scenario_rule(*args, **kw)
update_scenario_rule(args, kw) ==
    /\ Len(constraints) + Len(args) <= MaxRules
    /\ constraints' = IF args # <<>> THEN Extend(constraints, args) ELSE constraints
    /\ lastOp' = "update_scenario_rule"
    /\ lastArgs' = args
    /\ calls' = <<>> /\ dataAtCall' = data
    /\ model' = <<>> /\ modelAtCall' = <<>> /\ applied' = <<>> /\ raised' = NoExc
    /\ UNCHANGED <<data_updates, kwargs, ctorUpdates, ctorArgs, added, data>>
    /\ UNCHANGED <<datasetVars, reportVars, queryVars>>

\* add_custom_constraints(self, *args), self a model holding the constraints base
add_custom_constraints(base, args) ==
    LET r == IF args # <<>> THEN RunInjectors(args, 1, base, <<>>)
             ELSE [model |-> base, applied |-> <<>>, raised |-> NoExc]
    IN /\ modelAtCall' = base
       /\ model' = r.model
       /\ applied' = r.applied
       /\ raised' = r.raised
       /\ lastOp' = "add_custom_constraints"
       /\ lastArgs' = args
       /\ calls' = <<>> /\ dataAtCall' = data
       /\ UNCHANGED <<data_updates, constraints, kwargs, ctorUpdates, ctorArgs, added, data>>
       /\ UNCHANGED <<datasetVars, reportVars, queryVars>>

\* The parts a specification does not exercise stay as constructed.
DataSetIdle == fs = <<>> /\ ds = <<>> /\ lastPath = "none"
SumsIdle == report_tuples = <<>> /\ report_sites_name = <<>> /\ writer = <<>>
ReportIdle == instance = <<>> /\ files = {} /\ db = <<>> /\ trans = {} /\ SumsIdle
QueryIdle == queries = <<>> /\ executed = <<>> /\ csvs = {}

\* ---- the scenario's data side: construction, then construct and
\*      update_scenario_data in any order
InitScenario ==
    /\ \E du \in SeqUpTo(Funcs, 1), args \in SeqUpTo(Funcs, 1),
          cons \in {<<>>, <<"c1">>}, kw \in {<<>>, [k \in {"k1"} |-> 1]} :
            Scenario(du, cons, args, kw)
    /\ data \in Datasets
    /\ NoCallYet
    /\ DataSetIdle /\ ReportIdle /\ QueryIdle

NextScenario ==
    \/ \E kw \in KwInputs : construct(kw)
    \/ \E args \in SeqUpTo(Funcs, 2), kw \in KwInputs : update_scenario_data(args, kw)

SpecScenario == InitScenario /\ [][NextScenario]_vars

\* ---- the scenario's rule side: construction, then update_scenario_rule, and
\*      the scenario's injectors applied to a model
InitRules ==
    /\ \E du \in SeqUpTo(Funcs, 1), args \in SeqUpTo(Funcs, 1),
          cons \in SeqUpTo(Injs, 1), kw \in {<<>>, [k \in {"k1"} |-> 1]} :
            Scenario(du, cons, args, kw)
    /\ data \in Datasets
    /\ NoCallYet
    /\ DataSetIdle /\ ReportIdle /\ QueryIdle

NextRules ==
    \/ \E args \in SeqUpTo(Injs, 2), kw \in KwInputs : update_scenario_rule(args, kw)
    \/ \E base \in {<<>>, <<"c0">>} : add_custom_constraints(base, constraints)

SpecRules == InitRules /\ [][NextRules]_vars

\* ================================================================== DataSet
\* Two paths: one with the suffix .xlsx and one without.  Each may be absent, a
\* regular file or a directory.
Paths == {"in.xlsx", "out"}

\* input_path.suffix
Suffix(p) == IF p = "in.xlsx" THEN ".xlsx" ELSE ""

TableNames == {"global_prop", "demand"}
TableVals == {"t1", "t2"}

\* A DataSet: a dict from table name to table.
DataSets == Dicts(TableNames, TableVals)

Absent == [kind |-> "absent", xlsx |-> {}, parquet |-> <<>>]
RegularFile == [kind |-> "file", xlsx |-> {}, parquet |-> <<>>]
\* A directory: the stems of its *.xlsx files and its *.parquet files by name.
Dir(x, pq) == [kind |-> "dir", xlsx |-> x, parquet |-> pq]

\* pa.Table.from_pandas(df) written by write_table, and pd.read_parquet of it.
WriteTable(t) == [format |-> "parquet", schema |-> "pandas", table |-> t]
ReadParquet(f) == f.table

\* output_directory / f"{key}.parquet", and filename.stem of it.
FileName(key) == <<key, "parquet">>
Stem(name) == name[1]

\* A dispatch that looks for columnar files first.
RouteParquetFirst(p, e) ==
    IF Suffix(p) = ".xlsx" THEN "_read_excel"
    ELSE IF e.kind = "dir"
         THEN IF DOMAIN e.parquet # {} THEN "_read_parquet"
              ELSE IF e.xlsx # {} THEN "_read_excel"
              ELSE "FileNotFoundError"
         ELSE "FileNotFoundError"

\* The branch read_data takes for path p holding e.
Route(p, e) ==
    IF Suffix(p) = ".xlsx" THEN "_read_excel"
    ELSE IF e.kind = "dir"
         THEN IF e.xlsx # {} THEN "_read_excel"
              ELSE IF DOMAIN e.parquet # {} THEN "_read_parquet"
              ELSE "FileNotFoundError"
         ELSE "FileNotFoundError"

\* for filename in input_path.glob("*.parquet"): self[filename.stem] = read_parquet
ReadParquetDir(self, e) ==
    DictUpdate(self, [k \in {Stem(n) : n \in DOMAIN e.parquet} |->
                          ReadParquet(e.parquet[CHOOSE n \in DOMAIN e.parquet : Stem(n) = k])])

\* DataSet.read_data(input_path) on self; sheets is what urbs.input.read_input
\* returns for the path.
ReadData(self, p, e, sheets) ==
    LET r == Route(p, e)
    IN CASE r = "_read_excel" ->
              [ds |-> DictUpdate(self, sheets), op |-> r, raised |-> NoExc]
         [] r = "_read_parquet" ->
              [ds |-> ReadParquetDir(self, e), op |-> r, raised |-> NoExc]
         [] OTHER ->
              [ds |-> self, op |-> "read_data",
               raised |-> [type |-> "FileNotFoundError", by |-> "read_data", name |-> p]]

\* The directory after to_parquet has written the tables of d into it.
WriteParquetDir(e, d) ==
    Dir(e.xlsx, DictUpdate(e.parquet, [n \in {FileName(k) : k \in DOMAIN d} |->
                                          WriteTable(d[CHOOSE k \in DOMAIN d : FileName(k) = n])]))

\* DataSet()
new_DataSet ==
    /\ ds # <<>>
    /\ ds' = <<>>
    /\ lastOp' = "DataSet" /\ lastPath' = "none" /\ raised' = NoExc /\ lastArgs' = <<>>
    /\ UNCHANGED <<fs, scenarioVars, reportVars, queryVars>>

read_data(p, sheets) ==
    LET r == ReadData(ds, p, fs[p], sheets)
    IN /\ ds' = r.ds
       /\ lastOp' = r.op
       /\ raised' = r.raised
       /\ lastPath' = p /\ lastArgs' = <<p>>
       /\ UNCHANGED <<fs, scenarioVars, reportVars, queryVars>>

\* DataSet.to_parquet(output_directory)
to_parquet(p) ==
    /\ lastOp' = "to_parquet" /\ lastPath' = p /\ lastArgs' = <<p>>
    /\ IF fs[p].kind = "file"
       THEN /\ raised' = [type |-> "FileExistsError", by |-> "mkdir", name |-> p]
            /\ fs' = fs
       ELSE /\ raised' = NoExc
            /\ fs' = [fs EXCEPT ![p] =
                        WriteParquetDir(IF @.kind = "dir" THEN @ ELSE Dir({}, <<>>), ds)]
    /\ UNCHANGED <<ds, scenarioVars, reportVars, queryVars>>

\* DataSet.to_excel(output_directory): one spreadsheet per year of global_prop
to_excel(p) ==
    /\ lastOp' = "to_excel" /\ lastPath' = p /\ lastArgs' = <<p>>
    /\ IF "global_prop" \notin DOMAIN ds
       THEN /\ raised' = [type |-> "KeyError", by |-> "to_excel", name |-> "global_prop"]
            /\ fs' = fs
       ELSE IF fs[p].kind = "file"
       THEN /\ raised' = [type |-> "FileExistsError", by |-> "mkdir", name |-> p]
            /\ fs' = fs
       ELSE /\ raised' = NoExc
            /\ fs' = [fs EXCEPT ![p] =
                        Dir(@.xlsx \cup {"2020"}, IF @.kind = "dir" THEN @.parquet ELSE <<>>)]
    /\ UNCHANGED <<ds, scenarioVars, reportVars, queryVars>>

\* util.delete_folder(result_dir): shutil.rmtree
delete_folder(p) ==
    /\ lastOp' = "delete_folder" /\ lastPath' = p /\ lastArgs' = <<p>>
    /\ IF fs[p].kind = "dir"
       THEN raised' = NoExc /\ fs' = [fs EXCEPT ![p] = Absent]
       ELSE /\ raised' = [type |-> IF fs[p].kind = "file" THEN "NotADirectoryError"
                                   ELSE "FileNotFoundError",
                          by |-> "rmtree", name |-> p]
            /\ fs' = fs
    /\ UNCHANGED <<ds, scenarioVars, reportVars, queryVars>>

ScenarioIdle ==
    /\ Scenario(<<>>, <<>>, <<>>, <<>>)
    /\ data = [t \in Tables |-> 0]
    /\ NoCallYet

\* A fresh DataSet; each path absent, a file, an empty directory or a directory
\* of input spreadsheets.
InitDataSet ==
    /\ fs \in [Paths -> {Absent, RegularFile, Dir({}, <<>>), Dir({"2020"}, <<>>)}]
    /\ ds = <<>>
    /\ lastPath = "none"
    /\ ScenarioIdle /\ ReportIdle /\ QueryIdle

NextDataSet ==
    \/ new_DataSet
    \/ \E p \in Paths, sheets \in DataSets \ {<<>>} : read_data(p, sheets)
    \/ \E p \in Paths : to_parquet(p)
    \/ \E p \in Paths : to_excel(p)
    \/ \E p \in Paths : delete_folder(p)

SpecDataSet == InitDataSet /\ [][NextDataSet]_vars

\* ================================================================== report
MaxT == 2           \* most time steps of an instance
MaxReports == 2     \* most report_all calls that reach the database

\* Transmission tuples (Stf, Site In, Site Out, Transmission, Commodity): two
\* lines between sites 1 and 2, one between 1 and 3, and a loop at site 2.
LineKeys ==
    {<<2020, 1, 2, "hvac", "Elec">>, <<2020, 2, 1, "hvac", "Elec">>,
     <<2020, 1, 2, "dc", "Elec">>, <<2020, 2, 1, "dc", "Elec">>,
     <<2020, 1, 3, "hvac", "Elec">>, <<2020, 3, 1, "hvac", "Elec">>,
     <<2020, 2, 2, "hvac", "Elec">>}

\* The solver's values, different for every tuple and time step.
Level(k) == 10 * k[2] + k[3] + (IF k[4] = "dc" THEN 100 ELSE 0)
Flow(k, t) == [exported |-> Level(k) + t, imported |-> Level(k)]
Cap(k) == [Total |-> Level(k) + 1, New |-> 1]

\* get_constants(instance): the capacity table, indexed by transmission tuple
get_constants(inst) == [ctra |-> inst.ctra]

\* get_all_timeseries(instance): transmitted has the columns exported and
\* imported and the index (t, stf, sit, sit_, tra, com)
get_all_timeseries(inst) == [transmitted |-> inst.transmitted, stored |-> inst.stored]

RECURSIVE SumOverT(_, _, _)
SumOverT(series, col, t) ==
    IF t = 0 THEN 0 ELSE series[t][col] + SumOverT(series, col, t - 1)

\* transmitted[["exported", "imported"]].unstack(0).sum(axis=1, level=0) * weight
Annual(transmitted, w) ==
    [k \in DOMAIN transmitted |->
        [exported |-> w * SumOverT(transmitted[k], "exported", Len(transmitted[k])),
         imported |-> w * SumOverT(transmitted[k], "imported", Len(transmitted[k]))]]

\* pd.concat([ctra, transmitted], axis=1, keys=[...]).fillna(0).reset_index()
ConcatCtra(ctra, annual) ==
    {[Stf |-> k[1], SiteIn |-> k[2], SiteOut |-> k[3], Transmission |-> k[4],
      Commodity |-> k[5],
      Capacity |-> IF k \in DOMAIN ctra THEN ctra[k] ELSE [Total |-> 0, New |-> 0],
      Transmitted |-> IF k \in DOMAIN annual THEN annual[k]
                      ELSE [exported |-> 0, imported |-> 0]] :
        k \in DOMAIN ctra \cup DOMAIN annual}

\* ctra.loc[ctra["Site In"] < ctra["Site Out"]].rename(Transmitted -> Forward)
ForwardRows(tbl) == {r \in tbl : r.SiteIn < r.SiteOut}

\* A rename that leaves the two site columns where they are.
RenameBackwardNoSwap(r) == r

\* .rename(columns={"Site In": "Site Out", "Site Out": "Site In", ...})
RenameBackward(r) == [r EXCEPT !.SiteIn = r.SiteOut, !.SiteOut = r.SiteIn]

\* ctra.loc[ctra["Site In"] > ctra["Site Out"]].rename(...)
BackwardRows(tbl) == {RenameBackward(r) : r \in {q \in tbl : q.SiteIn > q.SiteOut}}

\* The inner merge on (Stf, Site In, Site Out, Transmission, Commodity), its
\* index renamed to From and To, Capacity_ dropped, the Scenario column added.
MergeLines(tbl, sce) ==
    {[Stf |-> l.Stf, From |-> l.SiteIn, To |-> l.SiteOut,
      Transmission |-> l.Transmission, Commodity |-> l.Commodity,
      Capacity |-> l.Capacity, Forward |-> l.Transmitted, Backward |-> r.Transmitted,
      Scenario |-> sce] :
        <<l, r>> \in {lr \in ForwardRows(tbl) \X BackwardRows(tbl) :
                        /\ lr[1].Stf = lr[2].Stf
                        /\ lr[1].SiteIn = lr[2].SiteIn
                        /\ lr[1].SiteOut = lr[2].SiteOut
                        /\ lr[1].Transmission = lr[2].Transmission
                        /\ lr[1].Commodity = lr[2].Commodity}}

\* to_sql(name, conn, if_exists="append") for every table of ids
AppendAll(dbv, ids, sce) ==
    [id \in DOMAIN dbv \cup ids |->
        IF id \in ids
        THEN (IF id \in DOMAIN dbv THEN Append(dbv[id], sce) ELSE <<sce>>)
        ELSE dbv[id]]

\* A table of instance._data: a frame or a series, the labels of its columns
\* (tuples, one entry per column level), the names of its index levels, the
\* DTWeight cell (0: none) and the value of its Scenario column.
Table(cols, idx, isEmpty) ==
    [kind |-> "DataFrame", columns |-> cols, index |-> idx, empty |-> isEmpty,
     dtweight |-> 0, scenario |-> "none"]

\* df.stack(0): the first column level moves into the index
Stack0(t) ==
    LET rest == {Tail(c) : c \in t.columns} \ {<<>>}
    IN [t EXCEPT !.columns = rest,
                 !.index = @ \cup {"site"},
                 !.kind = IF rest = {} THEN "Series" ELSE "DataFrame"]

\* prob._data[df].drop([c], axis=1, inplace=True) for the columns named like
\* an index level
DropDuplicated(t) ==
    [t EXCEPT !.columns = {c \in @ : ~(Len(c) = 1 /\ c[1] \in t.index)}]

\* prob._data[df]["Scenario"] = sce
Tag(t, sce) ==
    [t EXCEPT !.columns = @ \cup {IF \E c \in t.columns : Len(c) = 2
                                  THEN <<"Scenario", "">> ELSE <<"Scenario">>},
              !.scenario = sce]

AttributeError(n) == [type |-> "AttributeError", by |-> "input_data_report", name |-> n]

\* for df in prob._data: drop, tag, to_sql
RECURSIVE WriteInputs(_, _, _, _, _)
WriteInputs(d, order, i, sce, dbv) ==
    IF i > Len(order) THEN [data |-> d, db |-> dbv, raised |-> NoExc]
    ELSE LET n == order[i]
             dropped == IF n # "supim" THEN DropDuplicated(d[n]) ELSE d[n]
             tagged == IF ~dropped.empty THEN Tag(dropped, sce) ELSE dropped
         IN IF n # "supim" /\ d[n].kind # "DataFrame"
            THEN [data |-> d, db |-> dbv, raised |-> AttributeError(n)]
            ELSE WriteInputs([d EXCEPT ![n] = tagged], order, i + 1, sce,
                             AppendAll(dbv, {<<"Input", n>>}, sce))

\* input_data_report(prob, conn, sce)
InputDataReport(d, order, w, sce, dbv) ==
    IF d["demand"].kind # "DataFrame"
    THEN [data |-> d, db |-> dbv, raised |-> AttributeError("demand")]
    ELSE LET stacked == [d EXCEPT !["demand"] = Stack0(@)]
             weighted == [stacked EXCEPT !["global_prop"] =
                            [@ EXCEPT !.dtweight = w, !.columns = @ \cup {<<"value">>}]]
         IN WriteInputs(weighted, order, 1, sce, dbv)

\* The variables and the duals of constraints report_all stores.
VarNames ==
    {"e_co_stock", "e_pro_in", "e_pro_out", "e_tra_in", "e_tra_out", "e_sto_in",
     "e_sto_out", "e_sto_con", "e_co_buy", "e_co_sell", "tau_pro", "cap_pro_new",
     "cap_tra_new"}
DualNames ==
    {"res_vertex", "res_env_total", "res_process_throughput_by_capacity",
     "res_transmission_input_by_capacity", "res_process_capacity",
     "def_intermittent_supply"}

\* The per-time-step files, written when the instance has more than one step.
TimeseriesFiles(inst, sce) ==
    IF inst.timesteps > 1
    THEN {<<sce, "balance.csv">>}
         \cup (IF DOMAIN get_all_timeseries(inst).transmitted # {}
               THEN {<<sce, "transmitted_timeseries.csv">>} ELSE {})
         \cup (IF get_all_timeseries(inst).stored
               THEN {<<sce, "storage_timeseries.csv">>} ELSE {})
    ELSE {}

\* Whether balance, transmitted and stored are bound after the first block.
TimeseriesBound(inst) == inst.timesteps > 1

ResultTables == {<<"Result", "Proc">>, <<"Result", "Trans">>, <<"Result", "Storage">>}

\* report_all(instance, resultdir, sce, input_report)
ReportAll(inst, fl, dbv, sce, input_report) ==
    LET csv == TimeseriesFiles(inst, sce)
        ctra == get_constants(inst).ctra
    IN IF ~TimeseriesBound(inst)
       THEN [instance |-> inst, files |-> fl \cup csv, db |-> dbv, trans |-> {},
             raised |-> [type |-> "UnboundLocalError", by |-> "report_all",
                         name |-> "balance"]]
       ELSE IF /\ inst.mode.tra
               /\ Cardinality(DOMAIN get_all_timeseries(inst).transmitted)
                    # Cardinality(DOMAIN ctra)
       THEN [instance |-> inst, files |-> fl \cup csv, db |-> dbv, trans |-> {},
             raised |-> [type |-> "AssertionError", by |-> "report_all",
                         name |-> "transmitted.shape"]]
       ELSE LET tr == IF inst.mode.tra
                      THEN MergeLines(ConcatCtra(ctra,
                              Annual(get_all_timeseries(inst).transmitted, inst.weight)),
                              sce)
                      ELSE {}
                db2 == AppendAll(dbv,
                          ResultTables
                          \cup {<<"Var", v>> : v \in VarNames \cap inst.vars}
                          \cup (IF inst.dual THEN {<<"Dual", c>> : c \in DualNames} ELSE {}),
                          sce)
                r == IF input_report
                     THEN InputDataReport(inst.data, inst.order, inst.weight, sce, db2)
                     ELSE [data |-> inst.data, db |-> db2, raised |-> NoExc]
            IN [instance |-> [inst EXCEPT !.data = r.data],
                files |-> fl \cup csv \cup {<<sce, "summary.xlsx">>},
                db |-> r.db, trans |-> tr, raised |-> r.raised]

Reports(dbv) == IF <<"Result", "Proc">> \in DOMAIN dbv THEN Len(dbv[<<"Result", "Proc">>]) ELSE 0

report_all(sce, input_report) ==
    LET r == ReportAll(instance, files, db, sce, input_report)
    IN /\ Reports(db) < MaxReports
       /\ instance' = r.instance
       /\ files' = r.files
       /\ db' = r.db
       /\ trans' = r.trans
       /\ UNCHANGED <<report_tuples, report_sites_name, writer>>
       /\ raised' = r.raised
       /\ lastOp' = "report_all"
       /\ lastArgs' = <<sce, input_report>>
       /\ UNCHANGED <<scenarioVars, datasetVars, queryVars>>

\* A solved instance.
Instance(T, w, tra, sto, Kc, Kt, d) ==
    [timesteps |-> T, weight |-> w, mode |-> [tra |-> tra, sto |-> sto],
     ctra |-> [k \in Kc |-> Cap(k)],
     transmitted |-> [k \in Kt |-> [t \in 1..T |-> Flow(k, t)]],
     stored |-> sto, dual |-> TRUE, vars |-> {"e_pro_in", "e_tra_in"},
     data |-> d, order |-> <<"global_prop", "demand", "supim", "process">>]

\* The input tables: demand with one or two column levels, global_prop with or
\* without a DTWeight row, supim empty or not, process with or without a
\* column that repeats an index level.
InputData(levels, weightSet, supimEmpty, processDup) ==
    [n \in {"global_prop", "demand", "supim", "process"} |->
        CASE n = "global_prop" ->
                [Table({<<"value">>}, {"support_timeframe", "Property"}, FALSE)
                    EXCEPT !.dtweight = IF weightSet THEN 1 ELSE 0]
          [] n = "demand" ->
                Table(IF levels = 2 THEN {<<"Mid", "Elec">>, <<"North", "Elec">>}
                      ELSE {<<"Elec">>}, {"support_timeframe", "t"}, FALSE)
          [] n = "supim" ->
                Table({<<"Mid", "Wind">>}, {"support_timeframe", "t"}, supimEmpty)
          [] n = "process" ->
                Table({<<"inst-cap">>} \cup (IF processDup THEN {<<"Site">>} ELSE {}),
                      {"support_timeframe", "Site", "Process"}, FALSE)]

Line12 == {<<2020, 1, 2, "hvac", "Elec">>, <<2020, 2, 1, "hvac", "Elec">>}

ReportStart ==
    /\ files = {} /\ db = <<>> /\ trans = {} /\ SumsIdle
    /\ lastArgs = <<>> /\ raised = NoExc /\ lastOp = "init"
    /\ fs = <<>> /\ ds = <<>> /\ lastPath = "none"
    /\ Scenario(<<>>, <<>>, <<>>, <<>>)
    /\ data = [t \in Tables |-> 0]
    /\ dataAtCall = data /\ calls = <<>>
    /\ model = <<>> /\ modelAtCall = <<>> /\ applied = <<>>
    /\ QueryIdle

\* Instances of every mode and number of time steps, over varied input tables.
InitReport ==
    /\ \E T \in 1..MaxT, w \in {1, 2}, tra \in BOOLEAN, sto \in BOOLEAN,
          K \in {{}, Line12}, levels \in {1, 2}, weightSet \in BOOLEAN,
          supimEmpty \in BOOLEAN, processDup \in BOOLEAN :
            instance = Instance(T, w, tra, sto, K, K,
                                InputData(levels, weightSet, supimEmpty, processDup))
    /\ ReportStart

\* The tuple of the opposite direction.
Reverse(k) == <<k[1], k[3], k[2], k[4], k[5]>>

\* Instances in transmission mode over every choice of transmission tuples; the
\* capacity table has the tuples of the time series, or lacks one of them, or
\* has one of them in the opposite direction.
InitTrans ==
    /\ \E T \in 1..MaxT, w \in {1, 2}, Kt \in SUBSET LineKeys :
         \E Kc \in {Kt} \cup {Kt \ {k} : k \in Kt}
                       \cup {(Kt \ {k}) \cup {Reverse(k)} : k \in Kt} :
            instance = Instance(T, w, TRUE, FALSE, Kc, Kt,
                                InputData(2, FALSE, FALSE, FALSE))
    /\ ReportStart

NextReport ==
    \E sce \in {"base", "s1"}, input_report \in BOOLEAN : report_all(sce, input_report)

SpecReport == InitReport /\ [][NextReport]_vars

SpecTrans == InitTrans /\ [][NextReport]_vars

\* ================================================================== report()
\* report (report.py:44-209): the summary spreadsheet of one instance
MaxTuples == 2      \* longest report_tuples list

Sites == {"Mid", "North"}

\* The columns of the tables get_timeseries returns for a site: the processes
\* creating and consuming there, the storage columns, the neighbouring site.
Columns(block, lv) ==
    CASE block = "created" -> IF lv = "Mid" THEN {"Wind"} ELSE {"Gas"}
      [] block = "consumed" -> {"Demand"}
      [] block = "stored" -> {"Level", "Stored", "Retrieved"}
      [] block = "imported" -> Sites \ {lv}
      [] block = "exported" -> Sites \ {lv}
      [] block = "dsm" -> {"Delta"}
      [] block = "voltage_angle" -> {"Voltage Angle"}

\* The value of a column at time step t, for a site creating c per step and
\* storing l per step.
Value(block, col, lv, c, l, t) ==
    CASE block = "created" -> c
      [] block = "consumed" -> 1
      [] block = "stored" ->
            IF col = "Level" THEN l * t ELSE IF col = "Stored" THEN l ELSE 0
      [] block = "imported" -> IF lv = "Mid" THEN 1 ELSE 0
      [] block = "exported" -> IF lv = "Mid" THEN 0 ELSE 1
      [] block = "dsm" -> IF lv = "Mid" THEN 1 ELSE 0
      [] block = "voltage_angle" -> t

Blocks == {"created", "consumed", "stored", "imported", "exported", "dsm", "voltage_angle"}

\* A solved instance as report reads it: the time series of every site for
\* the commodity Elec of 2020, and the constants.
ReportInstance(T, c, l) ==
    [timesteps |-> T,
     series |-> [k \in {<<2020, lv, "Elec">> : lv \in Sites} |->
                    [b \in Blocks |->
                        [col \in Columns(b, k[2]) |->
                            [t \in 1..T |-> Value(b, col, k[2], c[k[2]], l, t)]]]],
     costs |-> [Invest |-> 1], cpro |-> <<>>, ctra |-> <<>>, csto |-> <<>>]

\* get_timeseries(instance, stf, com, lv): created, consumed, stored, imported,
\* exported, dsm, voltage_angle
get_timeseries(inst, stf, com, lv) == inst.series[<<stf, lv, com>>]

RECURSIVE SumSet(_, _)
SumSet(f, S) ==
    IF S = {} THEN 0
    ELSE LET x == CHOOSE x \in S : TRUE IN f[x] + SumSet(f, S \ {x})

RECURSIVE Total(_, _)
Total(series, t) == IF t = 0 THEN 0 ELSE series[t] + Total(series, t - 1)

\* frame.sum(axis=1): the sum of the columns, for each time step
RowSum(frame, T) ==
    [t \in 1..T |-> SumSet([col \in DOMAIN frame |-> frame[col][t]], DOMAIN frame)]

\* frame.sum(): the sum over time, for each column
ColSum(frame) == [col \in DOMAIN frame |-> Total(frame[col], Len(frame[col]))]

\* series.drop(label)
Drop(series, label) == [k \in DOMAIN series \ {label} |-> series[k]]

\* overprod
Overprod(ts, T) ==
    [col \in {"Overproduction"} |->
        [t \in 1..T |-> RowSum(ts.created, T)[t] - RowSum(ts.consumed, T)[t]
                        + RowSum(ts.imported, T)[t] - RowSum(ts.exported, T)[t]
                        + ts.stored["Retrieved"][t] - ts.stored["Stored"][t]]]

\* pd.concat(frames, keys=keys): the labels become (key, label)
Concat(frames, keys) ==
    LET labels == UNION {{<<keys[i], col>> : col \in DOMAIN frames[i]} : i \in DOMAIN frames}
    IN [kc \in labels |->
            LET i == CHOOSE i \in DOMAIN keys : keys[i] = kc[1] IN frames[i][kc[2]]]

TableauKeys ==
    <<"Created", "Consumed", "Storage", "Import from", "Export to", "Balance", "DSM",
      "Voltage Angle">>

SumsKeys == <<"Created", "Consumed", "Storage", "Import", "Export", "Balance", "DSM">>

\* tableau
Tableau(ts, T) ==
    Concat(<<ts.created, ts.consumed, ts.stored, ts.imported, ts.exported,
             Overprod(ts, T), ts.dsm, ts.voltage_angle>>, TableauKeys)

\* The sums over time of the tables of one site, without the storage level.
TimeseriesSums(ts, T) ==
    Concat(<<ColSum(ts.created), ColSum(ts.consumed), Drop(ColSum(ts.stored), "Level"),
             ColSum(ts.imported), ColSum(ts.exported), ColSum(Overprod(ts, T)),
             ColSum(ts.dsm)>>, SumsKeys)

\* frame.add(other, axis=1, fill_value=0)
AddFrames(a, b, T) ==
    [kc \in DOMAIN a \cup DOMAIN b |->
        [t \in 1..T |-> (IF kc \in DOMAIN a THEN a[kc][t] ELSE 0)
                        + (IF kc \in DOMAIN b THEN b[kc][t] ELSE 0)]]

\* series.add(other, fill_value=0)
AddSeries(a, b) ==
    [kc \in DOMAIN a \cup DOMAIN b |->
        (IF kc \in DOMAIN a THEN a[kc] ELSE 0) + (IF kc \in DOMAIN b THEN b[kc] ELSE 0)]

\* A site entry of a report tuple is one site name, [str |-> name], or a list of
\* site names, [list |-> names]; tuple(sit) is [tuple |-> names].
is_string(sit) == "str" \in DOMAIN sit

\* str(sit): the name itself, or the text of the tuple
PyStr(sit) == IF is_string(sit) THEN [text |-> sit.str] ELSE [repr |-> sit.tuple]

\* sit = tuple(sit) for a list, the name otherwise
SitKey(sit) == IF is_string(sit) THEN sit ELSE [tuple |-> sit.list]

\* "{}.{}.{} timeseries".format(stf, name, com)[:31]; the names of the model
\* differ within their first 31 characters.
SheetName(stf, name, com) == <<stf, name, com, "timeseries">>

\* One pass of the loop over the sites of a group. st holds timeseries, sums
\* and the tables of the site read last (bound: whether they are assigned yet).
SiteStep(st, inst, stf, sit, com, lv) ==
    LET ts == get_timeseries(inst, stf, com, lv)
        T == inst.timesteps
        help_ts == Tableau(ts, T)
        help_sums == TimeseriesSums(ts, T)
        key == <<stf, st.names[sit], com>>
    IN IF key \in DOMAIN st.timeseries /\ st.bound
       THEN [st EXCEPT !.timeseries = DictUpdate(@, [k \in {key} |->
                                          AddFrames(st.timeseries[key], help_ts, T)]),
                       !.sums = AddSeries(@, help_sums),
                       !.last = ts]
       ELSE [st EXCEPT !.timeseries = DictUpdate(@, [k \in {key} |-> help_ts]),
                       !.sums = help_sums,
                       !.last = ts,
                       !.bound = TRUE]

RECURSIVE SiteLoop(_, _, _, _, _, _, _)
SiteLoop(st, inst, stf, sit, com, help_sit, i) ==
    IF i > Len(help_sit) THEN st
    ELSE SiteLoop(SiteStep(st, inst, stf, sit, com, help_sit[i]),
                  inst, stf, sit, com, help_sit, i + 1)

\* One pass of the loop over report_tuples: the group's sites are read in
\* turn, then sums is computed again from the tables read last and appended
\* to energies under the name "{}.{}.{}".format(stf, sit, com).
TupleStep(st, inst, tup) ==
    LET stf == tup[1]
        com == tup[3]
        help_sit == IF is_string(tup[2]) THEN <<tup[2].str>> ELSE tup[2].list
        sit == SitKey(tup[2])
        named == IF sit \in DOMAIN st.names THEN st
                 ELSE [st EXCEPT !.names = DictUpdate(@, [k \in {sit} |-> PyStr(sit)])]
        after == SiteLoop(named, inst, stf, sit, com, help_sit, 1)
        sums == TimeseriesSums(after.last, inst.timesteps)
    IN [after EXCEPT !.sums = sums,
                     !.energies = Append(@, [name |-> <<stf, PyStr(sit), com>>,
                                             col |-> sums])]

RECURSIVE TupleLoop(_, _, _, _)
TupleLoop(st, inst, tuples, i) ==
    IF i > Len(tuples) THEN st
    ELSE TupleLoop(TupleStep(st, inst, tuples[i]), inst, tuples, i + 1)

\* pd.concat(energies, axis=1).fillna(0): every column over all the labels
Energy(energies) ==
    LET labels == UNION {DOMAIN energies[i].col : i \in DOMAIN energies}
    IN [i \in DOMAIN energies |->
            [name |-> energies[i].name,
             col |-> [kc \in labels |-> IF kc \in DOMAIN energies[i].col
                                        THEN energies[i].col[kc] ELSE 0]]]

\* The sheets of the constants.
ConstantSheets(inst) ==
    [s \in {<<"Costs">>, <<"Process caps">>, <<"Transmission caps">>, <<"Storage caps">>} |->
        CASE s = <<"Costs">> -> inst.costs
          [] s = <<"Process caps">> -> inst.cpro
          [] s = <<"Transmission caps">> -> get_constants(inst).ctra
          [] s = <<"Storage caps">> -> inst.csto]

\* The timeseries sheets, one per report tuple.
TimeseriesSheets(st, tuples) ==
    LET name(i) == SheetName(tuples[i][1],
                             st.names[SitKey(tuples[i][2])], tuples[i][3])
    IN [s \in {name(i) : i \in DOMAIN tuples} |->
            LET i == CHOOSE i \in DOMAIN tuples : name(i) = s
            IN st.timeseries[<<tuples[i][1],
                               st.names[SitKey(tuples[i][2])], tuples[i][3]>>]]

\* report(instance, filename, report_tuples, report_sites_name): the sheets
\* written and the names dict as the call leaves it.
Report(inst, tuples, names) ==
    LET start == [timeseries |-> <<>>, sums |-> <<>>, last |-> <<>>, bound |-> FALSE,
                  energies |-> <<>>, names |-> names]
        st == TupleLoop(start, inst, tuples, 1)
        sheets == IF st.timeseries = <<>> THEN ConstantSheets(inst)
                  ELSE DictUpdate(
                         DictUpdate(ConstantSheets(inst),
                                    [s \in {<<"Commodity sums">>} |-> Energy(st.energies)]),
                         TimeseriesSheets(st, tuples))
    IN [writer |-> sheets, names |-> st.names]

\* report(instance, filename, report_tuples, report_sites_name), called with
\* the caller's list and dict.
report ==
    LET r == Report(instance, report_tuples, report_sites_name)
    IN /\ writer' = r.writer
       /\ report_sites_name' = r.names
       /\ lastArgs' = <<>>
       /\ lastOp' = "report" /\ raised' = NoExc
       /\ UNCHANGED <<instance, files, db, trans, report_tuples>>
       /\ UNCHANGED <<scenarioVars, datasetVars, queryVars>>

\* The site entries of report tuples: one site, or the group in either order.
SiteEntries ==
    {[str |-> "Mid"], [str |-> "North"],
     [list |-> <<"Mid", "North">>], [list |-> <<"North", "Mid">>]}

\* report_sites_name: none given, or a name for the group, one of its own or
\* that of a site.
SitesNames ==
    {<<>>} \cup {[k \in {[tuple |-> <<"Mid", "North">>]} |-> [text |-> n]] : n \in {"All", "North"}}

\* Every instance, with every list of report tuples and every dict of names.
InitSums ==
    /\ \E T \in 1..MaxT, c \in [Sites -> 0..1], l \in 0..1 :
          instance = ReportInstance(T, c, l)
    /\ report_tuples \in SeqUpTo({<<2020, s, "Elec">> : s \in SiteEntries}, MaxTuples)
    /\ report_sites_name \in SitesNames
    /\ writer = <<>>
    /\ files = {} /\ db = <<>> /\ trans = {}
    /\ lastArgs = <<>> /\ raised = NoExc /\ lastOp = "init"
    /\ DataSetIdle /\ ScenarioIdle /\ QueryIdle

NextSums == report

SpecSums == InitSums /\ [][NextSums]_vars

\* ================================================================== query
\* The query directory: files matching *view_*.sql and files matching
\* *table_*.sql, by stem.
ViewFiles == {"view_a", "view_b"}
TableFiles == {"table_x", "table_y"}

\* file.stem.replace("table_", "") + ".csv"
CsvName(f) == IF f = "table_x" THEN "x.csv" ELSE "y.csv"

\* What cursor.execute does with the text of a file: it returns with a result
\* set ("rows"), returns without one ("done", cursor.description is None),
\* raises sqlite3.OperationalError or raises another exception (sqlite3.Warning
\* for a file of several statements, sqlite3.IntegrityError, ...).
Outcomes == {"rows", "done", "OperationalError", "OtherError"}

\* All orders in which glob may yield the files of S.
Orders(S) == {o \in [1..Cardinality(S) -> S] : \A i, j \in DOMAIN o : o[i] = o[j] => i = j}

\* except sql.OperationalError (the view loop)
ViewCaught(outcome) == outcome = "OperationalError"

\* a bare except (the table loop)
TableCaught(outcome) == outcome \in {"OperationalError", "OtherError"}

\* for file in glob("*view_*.sql"): the log and the exception after order[i..]
RECURSIVE RunViews(_, _, _, _)
RunViews(q, order, i, log) ==
    IF i > Len(order) THEN [executed |-> log, raised |-> NoExc]
    ELSE LET f == order[i]
         IN IF q[f] \in {"rows", "done"}
            THEN RunViews(q, order, i + 1, Append(log, [file |-> f, ok |-> TRUE]))
            ELSE IF ViewCaught(q[f])
            THEN RunViews(q, order, i + 1, Append(log, [file |-> f, ok |-> FALSE]))
            ELSE [executed |-> Append(log, [file |-> f, ok |-> FALSE]),
                  raised |-> [type |-> q[f], by |-> "cursor.execute", name |-> f]]

\* for file in glob("*table_*.sql"): execute, then header and rows to the CSV
RECURSIVE RunTables(_, _, _, _, _)
RunTables(q, order, i, log, out) ==
    IF i > Len(order) THEN [executed |-> log, csvs |-> out, raised |-> NoExc]
    ELSE LET f == order[i]
         IN IF q[f] = "rows"
            THEN RunTables(q, order, i + 1, Append(log, [file |-> f, ok |-> TRUE]),
                           out \cup {CsvName(f)})
            ELSE IF q[f] = "done"
            THEN [executed |-> Append(log, [file |-> f, ok |-> TRUE]), csvs |-> out,
                  raised |-> [type |-> "TypeError", by |-> "cursor.description", name |-> f]]
            ELSE IF TableCaught(q[f])
            THEN RunTables(q, order, i + 1, Append(log, [file |-> f, ok |-> FALSE]), out)
            ELSE [executed |-> Append(log, [file |-> f, ok |-> FALSE]), csvs |-> out,
                  raised |-> [type |-> q[f], by |-> "cursor.execute", name |-> f]]

\* export_results(result_dir, queries), glob yielding the files in the orders
\* vorder and torder
export_results(vorder, torder) ==
    LET v == RunViews(queries, vorder, 1, <<>>)
        t == IF v.raised = NoExc
             THEN RunTables(queries, torder, 1, v.executed, csvs)
             ELSE [executed |-> v.executed, csvs |-> csvs, raised |-> v.raised]
    IN /\ executed' = t.executed
       /\ csvs' = t.csvs
       /\ raised' = t.raised
       /\ lastOp' = "export_results"
       /\ lastArgs' = <<vorder, torder>>
       /\ UNCHANGED <<queries, scenarioVars, datasetVars, reportVars>>

\* Any set of query files, each with what executing it does (a view
\* definition returns no result set).
InitQuery ==
    /\ \E V \in SUBSET ViewFiles, T \in SUBSET TableFiles :
          queries \in {q \in [V \cup T -> Outcomes] : \A f \in V : q[f] # "rows"}
    /\ executed = <<>>
    /\ csvs = {}
    /\ lastArgs = <<>> /\ raised = NoExc /\ lastOp = "init"
    /\ fs = <<>> /\ ds = <<>> /\ lastPath = "none"
    /\ Scenario(<<>>, <<>>, <<>>, <<>>)
    /\ data = [t \in Tables |-> 0]
    /\ dataAtCall = data /\ calls = <<>>
    /\ model = <<>> /\ modelAtCall = <<>> /\ applied = <<>>
    /\ ReportIdle

NextQuery ==
    \E vorder \in Orders(DOMAIN queries \cap ViewFiles),
       torder \in Orders(DOMAIN queries \cap TableFiles) : export_results(vorder, torder)

SpecQuery == InitQuery /\ [][NextQuery]_vars

\* ================================================================== claims
\* The names of the functions called by the last construct, in call order.
CalledFuncs == [i \in 1..Len(calls) |-> calls[i].f]

\* C1: construct calls every function of the data-update list exactly once, in
\* list order: the constructor's data_updates, then the constructor's extra
\* positional arguments, then the functions added by the update_scenario_data
\* calls in the order of those calls.
C1_ConstructCallsInListOrder ==
    lastOp = "construct" => CalledFuncs = ctorUpdates \o ctorArgs \o added

\* A construct over a list fed by the constructor's data_updates, its extra
\* arguments and two update_scenario_data calls, all functions different
\* from their neighbours.
C1_Witness ==
    /\ lastOp = "construct"
    /\ ctorUpdates = <<"inc_demand">>
    /\ ctorArgs = <<"double_demand">>
    /\ added = <<"data_update", "inc_demand">>
    /\ Len(calls) = 4

\* C2: after construct has run its update functions, the dataset passed to
\* construct is unchanged (the functions worked on a copy).
C2_ConstructLeavesDatasetUnchanged ==
    lastOp = "construct" => data = dataAtCall

\* C3: add_custom_constraints applies each injector exactly once, in argument
\* order; update_scenario_rule appends its injectors after the registered ones,
\* keeping their order, the data-update list and the keyword arguments.
C3_InjectorsInOrderRulesAppended ==
    [][/\ (lastOp' = "add_custom_constraints" /\ raised' = NoExc) =>
            /\ applied' = lastArgs'
            /\ model' = modelAtCall' \o lastArgs'
       /\ lastOp' = "update_scenario_rule" =>
            /\ constraints' = constraints \o lastArgs'
            /\ data_updates' = data_updates
            /\ kwargs' = kwargs]_vars

\* Three injectors registered by two update_scenario_rule calls after the
\* constructor's one, then applied to a model that held a constraint already.
C3_Witness ==
    /\ lastOp = "add_custom_constraints"
    /\ raised = NoExc
    /\ lastArgs = <<"c1", "c2", "c1">>
    /\ modelAtCall = <<"c0">>
    /\ model = <<"c0", "c1", "c2", "c1">>
    /\ data_updates # <<>>
    /\ DOMAIN kwargs # {}

\* The index of the first injector of args that raises, 0 when none does.
FirstRaising(args) ==
    IF \E k \in 1..Len(args) : InjRaises(args[k]) # "none"
    THEN CHOOSE k \in 1..Len(args) :
            /\ InjRaises(args[k]) # "none"
            /\ \A j \in 1..(k - 1) : InjRaises(args[j]) = "none"
    ELSE 0

\* C10: when the k-th injector raises TypeError, the call raises a TypeError
\* naming that injector, the injectors after it are never applied and the
\* changes of the injectors before it are kept; an exception of another type
\* propagates unchanged.
C10_TypeErrorWrappedOthersPropagate ==
    lastOp = "add_custom_constraints" =>
        LET k == FirstRaising(lastArgs)
        IN /\ k = 0 => raised = NoExc
           /\ k > 0 =>
                /\ applied = SubSeq(lastArgs, 1, k)
                /\ model = modelAtCall \o SubSeq(lastArgs, 1, k - 1)
                /\ InjRaises(lastArgs[k]) = "TypeError" =>
                      raised = [type |-> "TypeError", by |-> "add_custom_constraints",
                                name |-> lastArgs[k]]
                /\ InjRaises(lastArgs[k]) # "TypeError" =>
                      raised = [type |-> InjRaises(lastArgs[k]), by |-> lastArgs[k],
                                name |-> lastArgs[k]]

\* The second of three injectors raised TypeError: the first one's constraint
\* is on the model, the third was never called.
C10_Witness ==
    /\ lastOp = "add_custom_constraints"
    /\ lastArgs = <<"c1", "cType", "c2">>
    /\ applied = <<"c1", "cType">>
    /\ model = modelAtCall \o <<"c1">>
    /\ raised.type = "TypeError" /\ raised.name = "cType"

\* C4: read_data reads a path with suffix .xlsx as a spreadsheet, a directory
\* with an .xlsx file as spreadsheets (whatever .parquet files it holds), a
\* directory with .parquet files only as columnar files, one table per file
\* keyed by the file stem; any other path raises FileNotFoundError and leaves
\* the DataSet as it was.
C4_ReadDataDispatch ==
    [][lastOp' \in {"read_data", "_read_excel", "_read_parquet"} =>
        LET p == lastPath'
            e == fs[p]
        IN /\ fs' = fs
           /\ Suffix(p) = ".xlsx" => lastOp' = "_read_excel" /\ raised' = NoExc
           /\ (Suffix(p) # ".xlsx" /\ e.kind = "dir" /\ e.xlsx # {}) =>
                 lastOp' = "_read_excel" /\ raised' = NoExc
           /\ (Suffix(p) # ".xlsx" /\ e.kind = "dir" /\ e.xlsx = {}
                 /\ DOMAIN e.parquet # {}) =>
                 /\ lastOp' = "_read_parquet" /\ raised' = NoExc
                 /\ DOMAIN ds' = DOMAIN ds \cup {n[1] : n \in DOMAIN e.parquet}
                 /\ \A n \in DOMAIN e.parquet : ds'[n[1]] = e.parquet[n].table
                 /\ \A k \in DOMAIN ds \ {n[1] : n \in DOMAIN e.parquet} : ds'[k] = ds[k]
           /\ (Suffix(p) # ".xlsx"
                 /\ (e.kind # "dir" \/ (e.xlsx = {} /\ DOMAIN e.parquet = {}))) =>
                 /\ lastOp' = "read_data"
                 /\ raised'.type = "FileNotFoundError"
                 /\ ds' = ds]_vars

\* A directory holding spreadsheets and columnar files was read as spreadsheets.
C4_Witness ==
    /\ lastOp = "_read_excel"
    /\ lastPath = "out"
    /\ fs["out"].xlsx # {}
    /\ DOMAIN fs["out"].parquet # {}

\* C5: after d.to_parquet(dir), for a non-empty d and a directory that was
\* absent, empty or held the files of an earlier to_parquet call, read_data(dir)
\* into an empty DataSet yields exactly the tables of d under their names.
C5_ParquetRoundTrip ==
    (/\ lastOp = "to_parquet" /\ raised = NoExc
     /\ ds # <<>>
     /\ Suffix(lastPath) = "" /\ fs[lastPath].xlsx = {}) =>
        \A sheets \in DataSets :
            LET r == ReadData(<<>>, lastPath, fs[lastPath], sheets)
            IN r.raised = NoExc /\ r.ds = ds

\* C6: report_all with input_report only reads the instance: the input tables
\* (the demand table's shape, the DTWeight entry of global_prop, the columns of
\* every table) are after the call what they were before it.
C6_ReportAllOnlyReads ==
    [][(lastOp' = "report_all" /\ lastArgs'[2]) => instance'.data = instance.data]_vars

\* The rows of the capacity/throughput table report_all joins.
CtraRows == DOMAIN instance.ctra \cup DOMAIN instance.transmitted

\* The time-summed, weight-scaled throughput of tuple k of the instance.
Throughput(k) ==
    IF k \in DOMAIN instance.transmitted
    THEN [exported |-> instance.weight * (instance.timesteps * Level(k)
                          + (instance.timesteps * (instance.timesteps + 1)) \div 2),
          imported |-> instance.weight * instance.timesteps * Level(k)]
    ELSE [exported |-> 0, imported |-> 0]

TransKey(r) == <<r.Stf, r.From, r.To, r.Transmission, r.Commodity>>

C8_SummaryForEveryInstance ==
    (lastOp = "report_all" /\ raised.type # "AssertionError") =>
        /\ <<lastArgs[1], "summary.xlsx">> \in files
        /\ \A id \in ResultTables :
              id \in DOMAIN db /\ db[id][Len(db[id])] = lastArgs[1]

\* C9: export_results executes every view definition before any table query; a
\* failing query is skipped and never keeps the remaining ones from running; a
\* CSV file is written for exactly the table queries that executed successfully.
C9_EveryQueryRunsCsvPerSuccess ==
    lastOp = "export_results" =>
        /\ \A i, j \in DOMAIN executed :
              (executed[i].file \in ViewFiles /\ executed[j].file \in TableFiles) => i < j
        /\ \A f \in DOMAIN queries :
              Cardinality({i \in DOMAIN executed : executed[i].file = f}) = 1
        /\ csvs = {CsvName(f) : f \in {g \in DOMAIN queries \cap TableFiles :
                                          queries[g] \in {"rows", "done"}}}

\* The keyword arguments acc with those of kw laid over them.
Overridden(acc, kw) ==
    [k \in DOMAIN acc \cup DOMAIN kw |-> IF k \in DOMAIN kw THEN kw[k] ELSE acc[k]]

\* C12: at every construct call every update function receives the same
\* keyword arguments: those accumulated by the scenario so far (constructor,
\* update_scenario_data calls, earlier construct calls) with those of the
\* current call laid over them; the accumulation is kept for the later calls.
C12_KwargsAccumulate ==
    [][/\ lastOp' = "construct" =>
            /\ Len(calls') = Len(data_updates)
            /\ \A i \in DOMAIN calls' : calls'[i].kw = Overridden(kwargs, lastArgs'[1])
            /\ kwargs' = Overridden(kwargs, lastArgs'[1])
       /\ lastOp' = "update_scenario_data" =>
            kwargs' = Overridden(kwargs, lastArgs'[1])]_vars

\* A construct call given no keyword arguments whose two update functions
\* received k1 = 2 and k2 = 1, both given in earlier calls, k1 overriding the
\* constructor's k1 = 1.
C12_Witness ==
    /\ lastOp = "construct"
    /\ lastArgs = <<(<<>>)>>
    /\ Len(calls) = 2
    /\ \A i \in DOMAIN calls : calls[i].kw = [k \in {"k1", "k2"} |-> IF k = "k1" THEN 2 ELSE 1]

\* The block of a timeseries sheet that a block of the sums is taken from.
SheetBlock(b) ==
    CASE b = "Import" -> "Import from"
      [] b = "Export" -> "Export to"
      [] OTHER -> b

\* The columns of a timeseries sheet that have an entry among the sums: all
\* but the storage level and the voltage angle.
Summed(sheet) ==
    {kc \in DOMAIN sheet : kc[1] # "Voltage Angle" /\ kc # <<"Storage", "Level">>}

\* C11: after report, for every report tuple (stf, sites, com), a list of
\* several sites included, the tuple's column of the 'Commodity sums' sheet
\* equals the sums over time of the columns of the tuple's timeseries sheet (the
\* sum of the tableaus of all sites of the group) for the Created, Consumed,
\* Storage (without Level), Import, Export, Balance and DSM blocks.
C11_SumsOfAggregatedTimeseries ==
    (lastOp = "report" /\ <<"Commodity sums">> \in DOMAIN writer) =>
        \A i \in DOMAIN report_tuples :
            LET tup == report_tuples[i]
                sheet == writer[SheetName(tup[1], report_sites_name[SitKey(tup[2])], tup[3])]
                column == writer[<<"Commodity sums">>][i].col
            IN /\ \A kc \in DOMAIN column :
                     column[kc] = IF <<SheetBlock(kc[1]), kc[2]>> \in DOMAIN sheet
                                  THEN Total(sheet[<<SheetBlock(kc[1]), kc[2]>>],
                                             instance.timesteps)
                                  ELSE 0
               /\ \A kc \in Summed(sheet) :
                     \E kd \in DOMAIN column : SheetBlock(kd[1]) = kc[1] /\ kd[2] = kc[2]
====
